---- MODULE Spec2Model ----
(***************************************************************************)
(* Task store of the Netlify function (netlify/functions/taskStore.js) and *)
(* its request handler (netlify/functions/tasks.js); the file-backed task  *)
(* store (api/_lib/taskStore.js) and the handlers of api/tasks.            *)
(*                                                                         *)
(* One Node.js process serves requests.  A request runs synchronously      *)
(* until it awaits an external call (blob store get/setJSON, upstream      *)
(* fetch); every such call is one step of the model, taken when the call   *)
(* completes, followed by the synchronous code up to the next call.        *)
(***************************************************************************)
EXTENDS Integers, Sequences, FiniteSets, TLC

\* ------------------------------------------------------------------ bounds
MaxId == 4          \* ids the generator hands out to requests served in turn
MaxOverlapId == 6   \* ids the generator hands out once requests may overlap
MaxArrivals == 2    \* requests that arrive while requests may overlap

\* The request slots of the process: two requests may overlap.
Reqs == {1, 2}

\* ------------------------------------------------------------ task records
Task(id, title, isDone) == [id |-> id, title |-> title, isDone |-> isDone]

NoTask == Task(0, "", FALSE)

\* nanoid() is modelled by a counter: the n-th call returns n.
buildDefaultTasksTwin(n) ==
    << Task(n, "walk the dog", FALSE),
       Task(n, "wash dishes", FALSE),
       Task(n + 2, "drink coffee", TRUE) >>

buildDefaultTasksUndone(n) ==
    << Task(n, "walk the dog", FALSE),
       Task(n + 1, "wash dishes", FALSE),
       Task(n + 2, "drink coffee", FALSE) >>

buildDefaultTasks(n) ==
    << Task(n, "walk the dog", FALSE),
       Task(n + 1, "wash dishes", FALSE),
       Task(n + 2, "drink coffee", TRUE) >>

SeedSize == Len(buildDefaultTasks(1))

MapIsDoneMovedLast(tasks, taskId, isDone) ==
    SelectSeq(tasks, LAMBDA t : t.id # taskId)
       \o [i \in 1..Len(SelectSeq(tasks, LAMBDA t : t.id = taskId)) |->
             [SelectSeq(tasks, LAMBDA t : t.id = taskId)[i]
                 EXCEPT !.isDone = isDone]]

MapIsDoneAll(tasks, taskId, isDone) ==
    [i \in 1..Len(tasks) |-> [tasks[i] EXCEPT !.isDone = isDone]]

MapIsDoneToggle(tasks, taskId, isDone) ==
    [i \in 1..Len(tasks) |->
        IF tasks[i].id = taskId
        THEN [tasks[i] EXCEPT !.isDone = ~@]
        ELSE tasks[i]]

\* tasks.map((task) => task.id === taskId ? { ...task, isDone } : task)
MapIsDone(tasks, taskId, isDone) ==
    [i \in 1..Len(tasks) |->
        IF tasks[i].id = taskId
        THEN [tasks[i] EXCEPT !.isDone = isDone]
        ELSE tasks[i]]

FilterOnly(tasks, taskId) == SelectSeq(tasks, LAMBDA t : t.id = taskId)

\* tasks.filter((task) => task.id !== taskId)
RECURSIVE FilterOut(_, _)
FilterOut(tasks, taskId) ==
    IF tasks = << >> THEN << >>
    ELSE IF Head(tasks).id = taskId
         THEN FilterOut(Tail(tasks), taskId)
         ELSE << Head(tasks) >> \o FilterOut(Tail(tasks), taskId)

Ids(tasks) == { tasks[i].id : i \in 1..Len(tasks) }

\* A stored JSON document / the global container: absent, or a task array.
Absent == [present |-> FALSE, tasks |-> << >>]
Holding(tasks) == [present |-> TRUE, tasks |-> tasks]

\* ------------------------------------------------------------------ state
VARIABLES
    deployment,       \* the backend that serves: "netlify" (netlify/functions)
                      \* or "vercel" (api/tasks, on the file-backed store)
    NETLIFY,          \* process.env.NETLIFY is set
    REMOTE_TASKS_API, \* process.env.REMOTE_TASKS_API ("" when unset)
    remoteTier,       \* the module has the remote tier (taskStore.js 178-470)
                      \* or not (the same module without it, 472-681)
    store,            \* let store: TRUE when it holds a blob store handle
    connectAttempted, \* let connectAttempted
    storageMode,      \* let storageMode
    container,        \* globalThis[FALLBACK_GLOBAL_KEY]
    blobDoc,          \* the document under STORE_KEY in the blob store
    remoteList,       \* the task list of the upstream service
    taskCache,        \* let taskCache of the file-backed store
    isPersistWritable,\* let isPersistWritable of the file-backed store
    disk,             \* the task array in tasks.data.json (absent: none)
    nextId,           \* the next value of nanoid()
    req,              \* the requests being served, per slot
    last,             \* history: the request completed last
    arrivals,         \* history: requests arrived (counted when they overlap)
    connectCalls,     \* history: calls of connectLambda
    seedWrites,       \* history: seed lists written to the blob store
    expected,         \* history: per id drawn, the record as it was created,
                      \* with the isDone of the latest updateTask on that id
    queryDefaults,    \* main.jsx: the QueryClient's defaultOptions.queries
    reachable,        \* the browser's requests reach the server
    localStorage,     \* the item under STORAGE_KEY in window.localStorage
    query,            \* the ["tasks"] query of the QueryClient
    serverList,       \* the task list the server answers the browser from
    mutations         \* history: mutations the user has started

vars == << deployment, NETLIFY, REMOTE_TASKS_API, remoteTier, store,
           connectAttempted, storageMode, container, blobDoc, remoteList,
           taskCache, isPersistWritable, disk, nextId, req, last, arrivals,
           connectCalls, seedWrites, expected, queryDefaults, reachable,
           localStorage, query, serverList, mutations >>

config == << deployment, NETLIFY, REMOTE_TASKS_API, remoteTier >>

client ==
    << queryDefaults, reachable, localStorage, query, serverList, mutations >>

fixed == << config, arrivals, client >>

DefaultRemoteUrl == "https://task-management-server-nyfr.onrender.com/api/tasks"

RemoteUrlFromEnvOnly == IF ~remoteTier THEN "" ELSE REMOTE_TASKS_API

\* const REMOTE_BASE_URL = process.env.REMOTE_TASKS_API || "https://...";
\* the module without the remote tier behaves as with no URL at all.
REMOTE_BASE_URL ==
    IF ~remoteTier THEN ""
    ELSE IF REMOTE_TASKS_API # "" THEN REMOTE_TASKS_API
    ELSE DefaultRemoteUrl

\* ------------------------------------------------------- request records
Methods == {"OPTIONS", "GET", "POST", "PATCH", "DELETE", "PUT"}

\* JSON values the handler looks at, as text: "undefined" is an absent field.
TitleInputs == {"undefined", "", "buy milk"}
IsDoneInputs == {"undefined", "yes", "true", "false"}

\* What a request remembers of the request completed before it arrived, when
\* that one changed the list: a createTask, updateTask or removeTask that
\* returned.
NoPrev ==
    [ method |-> "", taskId |-> 0, isDone |-> "undefined",
      title |-> "undefined", task |-> NoTask, tier |-> "", mode |-> "",
      tasks |-> << >>, before |-> << >>, after |-> << >>, alone |-> TRUE ]

Summary(rq) ==
    IF rq.status = 200 /\ rq.method \in {"POST", "PATCH", "DELETE"}
    THEN [ method |-> rq.method, taskId |-> rq.taskId, isDone |-> rq.isDone,
           title |-> rq.title, task |-> rq.respTask, tier |-> rq.tier,
           mode |-> rq.mode,
           tasks |-> rq.tasks, before |-> rq.before, after |-> rq.after,
           alone |-> rq.alone ]
    ELSE NoPrev

Idle ==
    [ pc |-> "idle", method |-> "", taskId |-> 0, malformed |-> FALSE,
      title |-> "undefined", isDone |-> "undefined",
      tasks |-> << >>, newTask |-> NoTask, pending |-> << >>,
      status |-> 0, msg |-> "", respList |-> << >>, respTask |-> NoTask,
      \* history of the request, read by the properties only
      modeAtStart |-> "", initContact |-> FALSE, foundNone |-> FALSE,
      tier |-> "", mode |-> "", upstream |-> NoTask, put |-> FALSE,
      before |-> << >>, after |-> << >>, failed |-> FALSE,
      alone |-> TRUE, prev |-> NoPrev ]

\* The data a synchronous stretch of code reads and writes.
Ctx(rq) ==
    [ rq |-> rq, container |-> container, nextId |-> nextId,
      blob |-> blobDoc, remote |-> remoteList,
      cache |-> taskCache, writable |-> isPersistWritable, disk |-> disk,
      seeds |-> seedWrites, expected |-> expected ]

\* The backend readTasks/writeTasks use for storageMode m and store handle s.
TierOf(m, s) ==
    IF m = "remote" THEN "remote"
    ELSE IF m = "memory" \/ ~s THEN "memory"
    ELSE "blob"

Stored(c, tier) ==
    IF tier = "remote" THEN c.remote
    ELSE IF tier = "memory" THEN c.container.tasks
    ELSE IF tier = "file" THEN c.cache.tasks
    ELSE c.blob.tasks

\* ------------------------------------------- taskStore.js, synchronous code
\* Array.isArray that takes the empty array for no array
isNonEmptyArray(doc) == doc.present /\ doc.tasks # << >>

\* Array.isArray(existing), Array.isArray(storedTasks): the document read
\* from the blob store is a task array
isArray(doc) == doc.present

ensureFallbackContainer(c) ==
    IF c.container.present THEN c
    ELSE [c EXCEPT !.container = Holding(buildDefaultTasks(c.nextId)),
                   !.nextId = @ + SeedSize,
                   !.expected = @ \o buildDefaultTasks(c.nextId)]

\* jsonResponse(statusCode, body), returned by the handler
jsonResponse(c, status, msg, list, task) ==
    [c EXCEPT !.rq.pc = "done", !.rq.status = status, !.rq.msg = msg,
              !.rq.respList = list, !.rq.respTask = task]

\* An exception leaves createTask/updateTask/removeTask: the handler's catch
\* answers 500.  GET has no try/catch: the handler's promise rejects (0).
Throw(c) ==
    LET c1 == [c EXCEPT !.rq.failed = TRUE] IN
    IF c.rq.method = "GET"
    THEN jsonResponse(c1, 0, "unhandled rejection", << >>, NoTask)
    ELSE jsonResponse(c1, 500, "something went wrong", << >>, NoTask)

\* The store function has returned; the handler builds its response.
Returned(c) ==
    CASE c.rq.method = "GET" ->
            jsonResponse(c, 200, "", c.rq.tasks, NoTask)
      [] c.rq.method = "POST" ->
            jsonResponse(c, 200, "", << >>, c.rq.newTask)
      [] c.rq.method = "PATCH" ->
            jsonResponse(c, 200, "task updated", << >>, NoTask)
      [] OTHER ->
            jsonResponse(c, 200, "task removed", << >>, NoTask)

writeTasks(c, tasks, m, s) ==
    IF m = "remote"
    THEN [c EXCEPT !.rq.pc = "write_put", !.rq.pending = tasks,
                   !.rq.put = TRUE]
    ELSE IF m = "memory" \/ ~s
    THEN Returned([ensureFallbackContainer(c) EXCEPT
                        !.container = Holding(tasks)])
    ELSE [c EXCEPT !.rq.pc = "write_set", !.rq.pending = tasks]

ToBool(v) == v = "true"

updatedInFront(tasks, newTask) == << newTask >> \o tasks

\* const updated = [...tasks, newTask];
updated(tasks, newTask) == Append(tasks, newTask)

\* createTask after its readTasks() has returned `tasks`
createTaskRest(c, tasks, m, s) ==
    LET newTask == Task(c.nextId, c.rq.title, FALSE)
        c1 == [c EXCEPT !.nextId = @ + 1, !.rq.newTask = newTask,
                        !.rq.tasks = tasks,
                        !.expected = Append(@, newTask)]
    IN  IF m = "remote"
        THEN [c1 EXCEPT !.rq.pc = "create_post"]
        ELSE writeTasks(c1, updated(tasks, newTask), m, s)

createTaskRemoteWrites(c, data, m, s) ==
    writeTasks(c, updated(c.rq.tasks, c.rq.newTask), m, s)

\* createTask after its remoteRequest("", POST) has returned `data`, whose
\* task is data.task or NoTask: if (data?.task) return data.task;
createTaskRemote(c, data, m, s) ==
    IF data # NoTask
    THEN jsonResponse(c, 200, "", << >>, data)
    ELSE writeTasks(c, updated(c.rq.tasks, c.rq.newTask), m, s)

\* updateTask after its readTasks() has returned `tasks`
updateTaskRest(c, tasks, m, s) ==
    IF m = "remote"
    THEN [c EXCEPT !.rq.pc = "update_patch"]
    ELSE writeTasks(c, MapIsDone(tasks, c.rq.taskId, ToBool(c.rq.isDone)),
                    m, s)

\* removeTask after its readTasks() has returned `tasks`
removeTaskRest(c, tasks, m, s) ==
    writeTasks(c, FilterOut(tasks, c.rq.taskId), m, s)

\* readTasks() has returned `tasks` to the store function that called it.
AfterRead(c, tasks, m, s) ==
    CASE c.rq.method = "GET" -> Returned([c EXCEPT !.rq.tasks = tasks])
      [] c.rq.method = "POST" -> createTaskRest(c, tasks, m, s)
      [] c.rq.method = "PATCH" -> updateTaskRest(c, tasks, m, s)
      [] OTHER -> removeTaskRest(c, tasks, m, s)

readTasks(c, m, s) ==
    IF m = "remote"
    THEN [c EXCEPT !.rq.pc = "read_remote"]
    ELSE IF m = "memory" \/ ~s
    THEN LET c1 == ensureFallbackContainer(c)
         IN  [c1 EXCEPT !.rq.pc = "read_memory",
                        !.rq.tasks = c1.container.tasks]
    ELSE [c EXCEPT !.rq.pc = "read_get"]

removeTask(c, m, s) ==
    IF m = "remote"
    THEN [c EXCEPT !.rq.pc = "remove_delete"]
    ELSE readTasks(c, m, s)

\* ----------------------------------------------------- tasks.js, the path
\* A path is the sequence of its segments from `tasks` on; a segment is a
\* task id, 0 for the empty string, or TasksSegment for the word `tasks`,
\* a non-empty string that is the id of no task.
TasksSegment == -1

Event(splat, id, path) == [splat |-> splat, id |-> id, path |-> path]

\* extractTaskId(event): pathParameters.splat, pathParameters.id, or the last
\* segment of event.path
extractTaskId(event) ==
    IF event.splat # << >> THEN Head(event.splat)
    ELSE IF event.id # 0 THEN event.id
    ELSE IF event.path = << >> THEN 0
    ELSE event.path[Len(event.path)]

\* ------------------------------------------------ tasks.js, after the init
ValidTitleDefined(title) == title # "undefined"

\* if (!title) / if (typeof isDone !== "boolean")
ValidTitle(title) == title \notin {"undefined", ""}
IsBoolean(v) == v \in {"true", "false"}

MissingIdOrCollection(taskId) == taskId \in {0, TasksSegment}

\* `!taskId`: the empty string
MissingId(taskId) == taskId = 0

\* handler, from the return of initializeStore on
handler(c0, m, s) ==
    LET tier == TierOf(m, s)
        c == [c0 EXCEPT !.rq.tier = tier, !.rq.mode = m,
                        !.rq.before = IF c0.rq.alone THEN Stored(c0, tier)
                                      ELSE << >>]
    IN
    IF c.rq.method = "GET" THEN readTasks(c, m, s)
    ELSE IF c.rq.method = "POST" THEN
        IF c.rq.malformed
        THEN jsonResponse(c, 500, "something went wrong", << >>, NoTask)
        ELSE IF ~ValidTitle(c.rq.title)
        THEN jsonResponse(c, 400, "please provide title", << >>, NoTask)
        ELSE readTasks(c, m, s)
    ELSE IF MissingId(c.rq.taskId)
    THEN jsonResponse(c, 400, "task id required", << >>, NoTask)
    ELSE IF c.rq.method = "PATCH" THEN
        IF c.rq.malformed
        THEN jsonResponse(c, 500, "something went wrong", << >>, NoTask)
        ELSE IF ~IsBoolean(c.rq.isDone)
        THEN jsonResponse(c, 400, "please provide isDone boolean", << >>,
                          NoTask)
        ELSE readTasks(c, m, s)
    ELSE IF c.rq.method = "DELETE" THEN removeTask(c, m, s)
    ELSE jsonResponse(c, 405, "method not allowed", << >>, NoTask)

\* ------------------------------ api/_lib/taskStore.js, synchronous code
\* loadTasksFromDisk: the file's array, or [] when it cannot be read
loadTasksFromDisk(d, ok) == IF ok /\ d.present THEN d.tasks ELSE << >>

\* persistTasks that writes whatever isPersistWritable says
persistTasksUnlatched(c, tasks) ==
    [c EXCEPT !.cache = Holding(tasks), !.rq.pc = "file_write",
              !.rq.pending = tasks]

\* persistTasks up to its fs.writeFile
persistTasks(c, tasks) ==
    LET c1 == [c EXCEPT !.cache = Holding(tasks)] IN
    IF ~c.writable THEN Returned(c1)
    ELSE [c1 EXCEPT !.rq.pc = "file_write", !.rq.pending = tasks]

\* getTasks/createTask/updateTask/removeTask of the file-backed store, after
\* ensureTasksLoaded() has returned `tasks`
fileStoreRest(c, tasks) ==
    CASE c.rq.method = "GET" -> Returned([c EXCEPT !.rq.tasks = tasks])
      [] c.rq.method = "POST" ->
            LET newTask == Task(c.nextId, c.rq.title, FALSE) IN
            persistTasks([c EXCEPT !.nextId = @ + 1, !.rq.newTask = newTask,
                                   !.expected = Append(@, newTask)],
                         updated(tasks, newTask))
      [] c.rq.method = "PATCH" ->
            persistTasks(c, MapIsDone(tasks, c.rq.taskId,
                                      ToBool(c.rq.isDone)))
      [] OTHER -> persistTasks(c, FilterOut(tasks, c.rq.taskId))

\* ensureTasksLoaded that reads the data file whatever taskCache holds
ensureTasksLoadedAlways(c) == [c EXCEPT !.rq.pc = "file_load"]

ensureTasksLoaded(c) ==
    IF c.cache.present THEN fileStoreRest(c, c.cache.tasks)
    ELSE [c EXCEPT !.rq.pc = "file_load"]

\* The handlers of api/tasks: index.js serves the path /api/tasks, [id].js
\* the paths below it.
vercelHandler(c0) ==
    LET c == [c0 EXCEPT !.rq.tier = "file",
                        !.rq.before = IF c0.rq.alone THEN c0.cache.tasks
                                      ELSE << >>]
    IN
    IF c.rq.taskId = TasksSegment THEN
        IF c.rq.method = "GET" THEN ensureTasksLoaded(c)
        ELSE IF c.rq.method = "POST" THEN
            IF c.rq.malformed
            THEN jsonResponse(c, 500, "something went wrong", << >>, NoTask)
            ELSE IF ~ValidTitle(c.rq.title)
            THEN jsonResponse(c, 400, "please provide title", << >>, NoTask)
            ELSE ensureTasksLoaded(c)
        ELSE jsonResponse(c, 405, "method not allowed", << >>, NoTask)
    ELSE IF MissingId(c.rq.taskId)
    THEN jsonResponse(c, 400, "task id required", << >>, NoTask)
    ELSE IF c.rq.method = "PATCH" THEN
        IF c.rq.malformed
        THEN jsonResponse(c, 500, "something went wrong", << >>, NoTask)
        ELSE IF ~IsBoolean(c.rq.isDone)
        THEN jsonResponse(c, 400, "please provide isDone boolean", << >>,
                          NoTask)
        ELSE ensureTasksLoaded(c)
    ELSE IF c.rq.method = "DELETE" THEN ensureTasksLoaded(c)
    ELSE jsonResponse(c, 405, "method not allowed", << >>, NoTask)

\* useRemoteStorage() and the memory fallback next to it: the new storageMode
FallbackMode == IF REMOTE_BASE_URL # "" THEN "remote" ELSE "memory"

FallbackCtx(c) ==
    IF FallbackMode = "memory" THEN ensureFallbackContainer(c) ELSE c

\* ------------------------------------------------------------ the browser
MaxMutations == 2

\* new QueryClient({defaultOptions: {queries: {refetchOnMount: false,
\* staleTime: Infinity, ...}}}), or new QueryClient() with the library's
\* defaults (refetchOnMount: true, staleTime: 0)
QueryDefaults ==
    { [refetchOnMount |-> FALSE, staleTime |-> "Infinity"],
      [refetchOnMount |-> TRUE, staleTime |-> "0"] }

\* window.localStorage.getItem(STORAGE_KEY): null, the JSON text of an array
\* of tasks, or some other text
NoItem == [kind |-> "null", tasks |-> << >>]
ArrayItem(tasks) == [kind |-> "array", tasks |-> tasks]
OtherItem == [kind |-> "other", tasks |-> << >>]

NoQuery ==
    [ present |-> FALSE, data |-> << >>, isInvalidated |-> FALSE,
      fetching |-> FALSE ]

\* readTasksFromStorage(): the array, or undefined
readTasksFromStorage(item) ==
    IF item.kind = "array" THEN [defined |-> TRUE, tasks |-> item.tasks]
    ELSE [defined |-> FALSE, tasks |-> << >>]

\* writeTasksToStorage(taskList): setItem stores the JSON text of the list,
\* or throws (quota exceeded, private browsing) and the error is ignored
writeTasksToStorage(item, taskList, ok) ==
    IF ok THEN ArrayItem(taskList) ELSE item

\* initialData: the taskList of { taskList: cachedTasks } or { taskList: [] }
initialData(item) ==
    LET cachedTasks == readTasksFromStorage(item) IN
    IF cachedTasks.defined THEN cachedTasks.tasks ELSE << >>

\* The query is stale: it is invalidated, or its data is older than staleTime
\* (data is never older than Infinity, always older than 0).
isStale(q, options) == q.isInvalidated \/ options.staleTime = "0"

\* The observer fetches when it mounts on a query that has data.
shouldFetchOnMount(q, options) ==
    options.refetchOnMount /\ isStale(q, options)

\* The browser is not part of the behaviour.
NoBrowser ==
    /\ queryDefaults = [refetchOnMount |-> TRUE, staleTime |-> "0"]
    /\ reachable = FALSE
    /\ localStorage = NoItem
    /\ query = NoQuery
    /\ serverList = << >>
    /\ mutations = 0

\* ---------------------------------------------------------------- actions
InitNetlify ==
    /\ deployment = "netlify"
    /\ NETLIFY \in BOOLEAN
    /\ remoteTier \in BOOLEAN
    /\ REMOTE_TASKS_API \in
         (IF remoteTier THEN {"", "https://tasks.example/api/tasks"} ELSE {""})
    /\ blobDoc \in {Absent, Holding(<< >>)}
    /\ disk = Absent
    /\ nextId = 1
    /\ expected = << >>

\* A tasks.data.json that holds tasks: three, under the ids 1 to 3.
dataFile ==
    << Task(1, "read", FALSE), Task(2, "write", FALSE), Task(3, "rest", TRUE) >>

\* tasks.data.json is missing, or holds an array: none, or three tasks.
InitVercel ==
    /\ deployment = "vercel"
    /\ NETLIFY = FALSE
    /\ remoteTier = FALSE
    /\ REMOTE_TASKS_API = ""
    /\ blobDoc = Absent
    /\ \/ disk \in {Absent, Holding(<< >>)} /\ nextId = 1 /\ expected = << >>
       \/ /\ disk = Holding(dataFile) /\ nextId = Len(dataFile) + 1
          /\ expected = dataFile

Init ==
    /\ InitNetlify \/ InitVercel
    /\ store = FALSE
    /\ connectAttempted = FALSE
    /\ storageMode = "uninitialized"
    /\ container = Absent
    /\ remoteList = << >>
    /\ taskCache = Absent
    /\ isPersistWritable = TRUE
    /\ req = [r \in Reqs |-> Idle]
    /\ last = Idle
    /\ arrivals = 0
    /\ connectCalls = 0
    /\ seedWrites = 0
    /\ NoBrowser

\* What the history keeps of a finished request: the list it wrote is dropped,
\* and of a request that threw, the id of its path and the list it read too.
Record(rq) ==
    IF rq.failed
    THEN [Idle EXCEPT !.pc = "done", !.method = rq.method,
                      !.title = rq.title, !.isDone = rq.isDone,
                      !.status = rq.status, !.msg = rq.msg, !.tier = rq.tier,
                      !.before = rq.before, !.after = rq.after,
                      !.failed = TRUE, !.modeAtStart = rq.modeAtStart,
                      !.initContact = rq.initContact, !.alone = rq.alone]
    ELSE [rq EXCEPT !.pending = << >>]

\* The step of request r ends in context `out`: a finished request leaves its
\* slot and is recorded in the history.  The generator is cut off: a step
\* that would draw more ids than IdBudget does not happen.
IdBudget == IF arrivals = 0 THEN MaxId ELSE MaxOverlapId

Apply(r, out) ==
    LET done == out.rq.pc = "done"
        overlapped == ~out.rq.alone /\ last.pc = "done" /\ ~last.alone
        fin == Record([out.rq EXCEPT
                          !.after = Stored(out, out.rq.tier),
                          !.prev = IF overlapped THEN Summary(last) ELSE @])
        arrives == req[r].pc = "idle"
    IN  /\ out.nextId <= IdBudget + 1
        /\ req' = [q \in Reqs |->
                     IF q = r THEN (IF done THEN Idle ELSE out.rq)
                     ELSE IF arrives /\ req[q].pc # "idle"
                     THEN [req[q] EXCEPT !.alone = FALSE, !.before = << >>,
                                         !.prev = NoPrev]
                     ELSE req[q]]
        /\ last' = IF done THEN fin ELSE IF arrives THEN Idle ELSE last
        /\ container' = out.container
        /\ nextId' = out.nextId
        /\ blobDoc' = out.blob
        /\ remoteList' = out.remote
        /\ taskCache' = out.cache
        /\ isPersistWritable' = out.writable
        /\ disk' = out.disk
        /\ seedWrites' = out.seeds
        /\ expected' =
             IF /\ done /\ out.rq.method = "PATCH" /\ out.rq.status = 200
                /\ out.rq.taskId \in 1..Len(out.expected)
             THEN [out.expected EXCEPT
                      ![out.rq.taskId].isDone = ToBool(out.rq.isDone)]
             ELSE out.expected

StoreNeverReady == FALSE

\* if (store) return;
StoreReady == store

ConnectAlways(hasBlobs) == hasBlobs

\* if (!connectAttempted) { if (event?.blobs) connectLambda(event) }
ConnectNow(hasBlobs) == ~connectAttempted /\ hasBlobs

\* initializeStore: the catch block, then the handler goes on
InitCatchKeepsStore(r, c) ==
    /\ store' = store
    /\ storageMode' = FallbackMode
    /\ Apply(r, handler(FallbackCtx(c), FallbackMode, store))

InitCatch(r, c) ==
    /\ store' = FALSE
    /\ storageMode' = FallbackMode
    /\ Apply(r, handler(FallbackCtx(c), FallbackMode, FALSE))

\* The events tried: the paths /api/tasks, /api/tasks/, /api/tasks/2 (the
\* second id the generator hands out: the middle seed task, once it exists)
\* and /api/tasks/5 (an id of no task served in turn), without path
\* parameters; and the id 2 as a path parameter.
Events ==
    { Event(<< >>, 0, << TasksSegment >> \o tail) :
         tail \in {<< >>, << 0 >>, << 2 >>, << MaxId + 1 >>} }
    \cup { Event(<< 2 >>, 0, << TasksSegment >>),
           Event(<< >>, 2, << TasksSegment >>) }

PathIds == { extractTaskId(event) : event \in Events }

NoneInFlight == \A q \in Reqs : req[q].pc = "idle"

Request(method, taskId, malformed, title, isDone) ==
    [ method |-> method, taskId |-> taskId, malformed |-> malformed,
      title |-> title, isDone |-> isDone ]

\* The requests tried one after the other: of those the handler answers alike
\* without looking at the store, one each.
AllRequests ==
    { Request(m, TasksSegment, FALSE, "undefined", "undefined") :
         m \in {"OPTIONS", "GET"} }
    \cup { Request("PUT", i, FALSE, "undefined", "undefined") :
              i \in PathIds \ {2} }
    \cup { Request("POST", TasksSegment, FALSE, t, "undefined") :
              t \in TitleInputs }
    \cup { Request("POST", TasksSegment, TRUE, "undefined", "undefined") }
    \cup { Request("DELETE", i, FALSE, "undefined", "undefined") :
              i \in PathIds }
    \cup { Request("PATCH", i, FALSE, "undefined", b) :
              i \in {2, MaxId + 1}, b \in IsDoneInputs \ {"undefined"} }
    \cup { Request("PATCH", i, FALSE, "undefined", "true") :
              i \in {0, TasksSegment} }
    \cup { Request("PATCH", MaxId + 1, FALSE, "undefined", "undefined"),
           Request("PATCH", MaxId + 1, TRUE, "undefined", "undefined") }

\* The requests tried overlapping: the four the store functions serve.
StoreRequests ==
    { Request("GET", TasksSegment, FALSE, "undefined", "undefined"),
      Request("POST", TasksSegment, FALSE, "buy milk", "undefined"),
      Request("PATCH", 2, FALSE, "undefined", "true"),
      Request("DELETE", 2, FALSE, "undefined", "undefined") }

\* The requests that remember the one before them: a GET after a createTask
\* or removeTask, and a PATCH that repeats the PATCH before it.
Follows(method, taskId, isDone) ==
    \/ method = "GET" /\ last.method \in {"POST", "DELETE"}
    \/ /\ method = "PATCH" /\ last.method = "PATCH"
       /\ taskId = last.taskId /\ isDone = last.isDone

\* A request of `requests` arrives: the handler runs up to its first pending
\* call.
Start(r, requests) ==
    /\ req[r].pc = "idle"
    /\ \E k \in requests, hasBlobs \in BOOLEAN :
       LET method == k.method
           taskId == k.taskId
           malformed == k.malformed
           title == k.title
           isDone == k.isDone
       IN
       LET rq == [Idle EXCEPT !.pc = "start", !.method = method,
                              !.taskId = taskId, !.malformed = malformed,
                              !.title = title, !.isDone = isDone,
                              !.modeAtStart = storageMode,
                              !.alone = NoneInFlight,
                              !.prev = IF /\ NoneInFlight
                                          /\ Follows(method, taskId, isDone)
                                       THEN Summary(last) ELSE NoPrev]
           c == Ctx(rq)
       IN
       /\ IF deployment = "vercel" THEN
             /\ ~hasBlobs
             /\ Apply(r, vercelHandler(c))
             /\ UNCHANGED << store, storageMode, connectAttempted,
                             connectCalls >>
          ELSE IF method = "OPTIONS" THEN
             /\ ~hasBlobs
             /\ Apply(r, jsonResponse(c, 200, "", << >>, NoTask))
             /\ UNCHANGED << store, storageMode, connectAttempted,
                             connectCalls >>
          ELSE IF StoreReady THEN
             /\ ~hasBlobs
             /\ Apply(r, handler(c, storageMode, store))
             /\ UNCHANGED << store, storageMode, connectAttempted,
                             connectCalls >>
          ELSE IF ~NETLIFY THEN
             /\ ~hasBlobs
             /\ storageMode' = FallbackMode
             /\ Apply(r, handler(FallbackCtx(c), FallbackMode, store))
             /\ UNCHANGED << store, connectAttempted, connectCalls >>
          ELSE
             /\ connectAttempted' = TRUE
             /\ connectCalls' = IF ConnectNow(hasBlobs)
                                THEN connectCalls + 1 ELSE connectCalls
             /\ \E ok \in BOOLEAN :
                  IF ok
                  THEN /\ store' = TRUE
                       /\ storageMode' = storageMode
                       /\ Apply(r, [c EXCEPT !.rq.pc = "init_get",
                                             !.rq.initContact = TRUE])
                  ELSE InitCatch(r, [c EXCEPT !.rq.initContact = TRUE])
    /\ UNCHANGED << config, client >>

\* initializeStore: store.get(STORE_KEY) completes
InitGet(r) ==
    /\ req[r].pc = "init_get"
    /\ LET c == Ctx(req[r]) IN
       \E ok \in BOOLEAN :
         IF ~ok THEN InitCatch(r, c)
         ELSE IF isArray(blobDoc)
         THEN /\ storageMode' = "blob"
              /\ store' = store
              /\ Apply(r, handler(c, "blob", store))
         ELSE /\ Apply(r, [c EXCEPT !.rq.pc = "init_seed",
                                    !.rq.foundNone = TRUE,
                                    !.rq.pending = buildDefaultTasks(c.nextId),
                                    !.nextId = @ + SeedSize,
                                    !.expected =
                                       @ \o buildDefaultTasks(c.nextId)])
              /\ UNCHANGED << store, storageMode >>
    /\ UNCHANGED << fixed, connectAttempted, connectCalls >>

\* initializeStore: store.setJSON(STORE_KEY, seeded) completes
InitSeed(r) ==
    /\ req[r].pc = "init_seed"
    /\ LET c == Ctx(req[r]) IN
       \E ok \in BOOLEAN :
         IF ~ok THEN InitCatch(r, c)
         ELSE /\ storageMode' = "blob"
              /\ store' = store
              /\ Apply(r, handler([c EXCEPT !.blob = Holding(c.rq.pending),
                                            !.seeds = @ + 1],
                                  "blob", store))
    /\ UNCHANGED << fixed, connectAttempted, connectCalls >>

Process == << store, storageMode, connectAttempted, connectCalls >>

\* readTasks: remoteRequest() completes
ReadRemote(r) ==
    /\ req[r].pc = "read_remote"
    /\ LET c == Ctx(req[r]) IN
       \E ok \in BOOLEAN :
         Apply(r, IF ok THEN AfterRead(c, remoteList, storageMode, store)
                  ELSE Throw(c))
    /\ UNCHANGED << fixed, Process >>

\* readTasks in memory mode has returned its copy of container.tasks: the
\* store function that awaits it resumes, after the code of the calls that
\* were made in between.
ReadMemory(r) ==
    /\ req[r].pc = "read_memory"
    /\ LET c == Ctx(req[r]) IN
       Apply(r, AfterRead(c, c.rq.tasks, storageMode, store))
    /\ UNCHANGED << fixed, Process >>

\* readTasks: store.get(STORE_KEY) completes
ReadGet(r) ==
    /\ req[r].pc = "read_get"
    /\ LET c == Ctx(req[r]) IN
       \E ok \in BOOLEAN :
         Apply(r, IF ~ok THEN Throw(c)
                  ELSE IF isArray(blobDoc)
                  THEN AfterRead(c, blobDoc.tasks, storageMode, store)
                  ELSE IF ~store THEN Throw(c)
                  ELSE [c EXCEPT !.rq.pc = "read_seed",
                                 !.rq.pending = buildDefaultTasks(c.nextId),
                                 !.nextId = @ + SeedSize,
                                 !.expected =
                                    @ \o buildDefaultTasks(c.nextId)])
    /\ UNCHANGED << fixed, Process >>

\* readTasks: store.setJSON(STORE_KEY, seeded) completes
ReadSeed(r) ==
    /\ req[r].pc = "read_seed"
    /\ LET c == Ctx(req[r]) IN
       \E ok \in BOOLEAN :
         Apply(r, IF ~ok THEN Throw(c)
                  ELSE AfterRead([c EXCEPT !.blob = Holding(c.rq.pending),
                                           !.seeds = @ + 1],
                                 c.rq.pending, storageMode, store))
    /\ UNCHANGED << fixed, Process >>

\* writeTasks: store.setJSON(STORE_KEY, tasks) completes
WriteSet(r) ==
    /\ req[r].pc = "write_set"
    /\ LET c == Ctx(req[r]) IN
       \E ok \in BOOLEAN :
         Apply(r, IF ~ok THEN Throw(c)
                  ELSE Returned([c EXCEPT !.blob = Holding(c.rq.pending)]))
    /\ UNCHANGED << fixed, Process >>

\* writeTasks: remoteRequest("", PUT {taskList}) completes
WritePut(r) ==
    /\ req[r].pc = "write_put"
    /\ LET c == Ctx(req[r]) IN
       \E ok \in BOOLEAN :
         Apply(r, IF ~ok THEN Throw(c)
                  ELSE Returned([c EXCEPT !.remote = c.rq.pending]))
    /\ UNCHANGED << fixed, Process >>

\* createTask: remoteRequest("", POST {title}) completes; the upstream has
\* added a task under an id of its own and answers with or without it.
CreatePost(r) ==
    /\ req[r].pc = "create_post"
    /\ LET c == Ctx(req[r]) IN
       \E ok \in BOOLEAN, withTask \in BOOLEAN :
         IF ~ok THEN ~withTask /\ Apply(r, Throw(c))
         ELSE LET made == Task(c.nextId, c.rq.title, FALSE)
                  data == IF withTask THEN made ELSE NoTask
                  c1 == [c EXCEPT !.nextId = @ + 1,
                                  !.remote = Append(@, made),
                                  !.expected = Append(@, made),
                                  !.rq.upstream = data]
              IN  Apply(r, createTaskRemote(c1, data, storageMode, store))
    /\ UNCHANGED << fixed, Process >>

\* updateTask: remoteRequest("/id", PATCH {isDone}) completes
UpdatePatch(r) ==
    /\ req[r].pc = "update_patch"
    /\ LET c == Ctx(req[r]) IN
       \E ok \in BOOLEAN :
         Apply(r, IF ~ok THEN Throw(c)
                  ELSE Returned([c EXCEPT !.remote =
                         MapIsDone(@, c.rq.taskId, ToBool(c.rq.isDone))]))
    /\ UNCHANGED << fixed, Process >>

\* removeTask: remoteRequest("/id", DELETE) completes
RemoveDelete(r) ==
    /\ req[r].pc = "remove_delete"
    /\ LET c == Ctx(req[r]) IN
       \E ok \in BOOLEAN :
         Apply(r, IF ~ok THEN Throw(c)
                  ELSE Returned([c EXCEPT !.remote =
                         FilterOut(@, c.rq.taskId)]))
    /\ UNCHANGED << fixed, Process >>

\* ensureTasksLoaded: loadTasksFromDisk() completes
FileLoad(r) ==
    /\ req[r].pc = "file_load"
    /\ LET c == Ctx(req[r]) IN
       \E ok \in BOOLEAN :
         LET tasks == loadTasksFromDisk(disk, ok)
             c1 == [c EXCEPT !.cache = Holding(tasks),
                             !.rq.before = IF c.rq.alone THEN tasks
                                           ELSE << >>]
         IN  Apply(r, fileStoreRest(c1, tasks))
    /\ UNCHANGED << fixed, Process >>

\* persistTasks: fs.writeFile completes
FileWrite(r) ==
    /\ req[r].pc = "file_write"
    /\ LET c == Ctx(req[r]) IN
       \E ok \in BOOLEAN :
         Apply(r, Returned(IF ok
                           THEN [c EXCEPT !.disk = Holding(c.rq.pending)]
                           ELSE [c EXCEPT !.writable = FALSE]))
    /\ UNCHANGED << fixed, Process >>

\* resetTasksCache(); the history forgets the request completed before it.
resetTasksCache ==
    /\ deployment = "vercel"
    /\ taskCache.present
    /\ taskCache' = Absent
    /\ last' = Idle
    /\ req' = [q \in Reqs |->
                 IF req[q].pc = "idle" THEN req[q]
                 ELSE [req[q] EXCEPT !.alone = FALSE, !.before = << >>,
                                     !.prev = NoPrev]]
    /\ UNCHANGED << fixed, Process, container, blobDoc, remoteList,
                    isPersistWritable, disk, nextId, seedWrites, expected >>

\* readTasks seeds only when it finds no document although initializeStore
\* has set the store handle: when it overlaps the initialization (ReadSeed
\* is a step of overlapping requests only).
StepSerial(r) ==
    \/ InitGet(r) \/ InitSeed(r)
    \/ ReadRemote(r) \/ ReadGet(r) \/ ReadMemory(r)
    \/ WriteSet(r) \/ WritePut(r)
    \/ CreatePost(r) \/ UpdatePatch(r) \/ RemoveDelete(r)
    \/ FileLoad(r) \/ FileWrite(r)

Step(r) == StepSerial(r) \/ ReadSeed(r)

\* Requests one after the other: the next arrives when the last is answered.
SerialStart == NoneInFlight /\ Start(1, AllRequests) /\ UNCHANGED arrivals

NextSerial == SerialStart \/ StepSerial(1) \/ resetTasksCache

Spec == Init /\ [][NextSerial]_vars

\* Requests one after the other, among them the removal of each seed task.
EmptyingRequests ==
    StoreRequests \cup
    { Request("DELETE", i, FALSE, "undefined", "undefined") : i \in {1, 3} }

EmptyingStart ==
    NoneInFlight /\ Start(1, EmptyingRequests) /\ UNCHANGED arrivals

NextEmptying == EmptyingStart \/ StepSerial(1) \/ resetTasksCache

SpecEmptying == Init /\ [][NextEmptying]_vars

\* Requests may overlap: a request arrives whenever a slot is free.
OverlapStart(r) ==
    /\ arrivals < MaxArrivals
    /\ arrivals' = arrivals + 1
    /\ Start(r, StoreRequests)

Next == resetTasksCache \/ \E r \in Reqs : OverlapStart(r) \/ Step(r)

SpecOverlap == Init /\ [][Next]_vars

\* ---------------------------------------------------- the browser's steps
\* The server seen from the browser: one netlify process in memory mode,
\* answering each request in one step from serverList.
ServerBehindBrowser ==
    /\ deployment = "netlify" /\ NETLIFY = FALSE /\ remoteTier = FALSE
    /\ REMOTE_TASKS_API = ""
    /\ store = FALSE /\ connectAttempted = FALSE
    /\ storageMode = "memory"
    /\ container = Absent /\ blobDoc = Absent /\ remoteList = << >>
    /\ taskCache = Absent /\ isPersistWritable = TRUE /\ disk = Absent
    /\ req = [r \in Reqs |-> Idle] /\ last = Idle
    /\ arrivals = 0 /\ connectCalls = 0 /\ seedWrites = 0

\* A list an earlier visit left in localStorage: the seed list before its
\* second task was done and its third was removed on the server.
EarlierList == buildDefaultTasks(1)

LaterList == FilterOut(MapIsDone(EarlierList, 2, TRUE), 3)

InitBrowser ==
    /\ ServerBehindBrowser
    /\ queryDefaults \in QueryDefaults
    /\ reachable \in BOOLEAN
    /\ localStorage \in {NoItem, OtherItem, ArrayItem(<< >>),
                         ArrayItem(EarlierList)}
    /\ query = NoQuery
    /\ serverList \in {EarlierList, LaterList}
    /\ nextId = Len(EarlierList) + 1
    /\ expected = EarlierList
    /\ mutations = 0

server == << config, Process, container, blobDoc, remoteList, taskCache,
            isPersistWritable, disk, req, last, arrivals, seedWrites,
            expected >>

\* The app loads: useFetchTasks calls useQuery, which creates the query with
\* initialData() and fetches on mount if the options say so.
useFetchTasks ==
    /\ ~query.present
    /\ LET q == [NoQuery EXCEPT !.present = TRUE,
                                !.data = initialData(localStorage)]
       IN  query' = [q EXCEPT !.fetching =
                                 shouldFetchOnMount(q, queryDefaults)]
    /\ UNCHANGED << server, nextId, queryDefaults, reachable, localStorage,
                    serverList, mutations >>

\* queryFn returns: the body of the GET response, or { taskList: [] } when
\* the request failed; onSuccess writes it to localStorage.
queryFn ==
    /\ query.present /\ query.fetching
    /\ LET taskList == IF reachable THEN serverList ELSE << >> IN
       /\ query' = [query EXCEPT !.data = taskList, !.fetching = FALSE,
                                 !.isInvalidated = FALSE]
       /\ \E ok \in BOOLEAN :
            localStorage' = writeTasksToStorage(localStorage, taskList, ok)
    /\ UNCHANGED << server, nextId, queryDefaults, reachable, serverList,
                    mutations >>

mutationSuccessStale(taskList) ==
    /\ query' = [query EXCEPT !.data = taskList, !.isInvalidated = TRUE,
                              !.fetching = TRUE]
    /\ \E ok \in BOOLEAN :
         localStorage' = writeTasksToStorage(localStorage, query.data, ok)

\* A mutation's onSuccess: setQueryData with the new list, written to
\* localStorage too, then invalidateQueries, which refetches the mounted
\* query.
mutationSuccess(taskList) ==
    /\ query' = [query EXCEPT !.data = taskList, !.isInvalidated = TRUE,
                              !.fetching = TRUE]
    /\ \E ok \in BOOLEAN :
         localStorage' = writeTasksToStorage(localStorage, taskList, ok)

\* onError, or none: a toast
mutationError == UNCHANGED << query, localStorage >>

UserMutates ==
    /\ query.present
    /\ mutations < MaxMutations
    /\ mutations' = mutations + 1

\* useCreateTask: createTask(title), answered by the server
useCreateTask ==
    /\ UserMutates
    /\ nextId <= MaxId
    /\ IF reachable
       THEN LET task == Task(nextId, "buy milk", FALSE) IN
            /\ serverList' = updated(serverList, task)
            /\ nextId' = nextId + 1
            /\ mutationSuccess(updated(query.data, task))
       ELSE mutationError /\ UNCHANGED << serverList, nextId >>
    /\ UNCHANGED << server, queryDefaults, reachable >>

\* useEditTask: editTask({taskId, isDone}) on an item shown
useEditTask ==
    /\ UserMutates
    /\ \E i \in 1..Len(query.data) :
         LET taskId == query.data[i].id
             isDone == ~query.data[i].isDone
         IN  IF reachable
             THEN /\ serverList' = MapIsDone(serverList, taskId, isDone)
                  /\ mutationSuccess(MapIsDone(query.data, taskId, isDone))
             ELSE mutationError /\ UNCHANGED serverList
    /\ UNCHANGED << server, nextId, queryDefaults, reachable >>

\* useDeleteTask: deleteTask(taskId) on an item shown
useDeleteTask ==
    /\ UserMutates
    /\ \E i \in 1..Len(query.data) :
         LET taskId == query.data[i].id IN
         IF reachable
         THEN /\ serverList' = FilterOut(serverList, taskId)
              /\ mutationSuccess(FilterOut(query.data, taskId))
         ELSE mutationError /\ UNCHANGED serverList
    /\ UNCHANGED << server, nextId, queryDefaults, reachable >>

NextBrowser ==
    useFetchTasks \/ queryFn \/ useCreateTask \/ useEditTask \/ useDeleteTask

\* The app is loaded, and a request sent is answered: the user may never
\* start a mutation.
SpecBrowser ==
    /\ InitBrowser /\ [][NextBrowser]_vars
    /\ WF_vars(useFetchTasks) /\ WF_vars(queryFn)

\* ------------------------------------------------------------- properties
\* The request completed last, when no request is being served.
Done == last.pc = "done"

Fallen == {"remote", "memory"}

C3_BlobFailureDemotes ==
    (Done /\ last.tier = "blob" /\ last.failed)
       => last.status = 200 /\ storageMode \in Fallen

\* C4: a request served by the upstream service whose remoteRequest threw is
\* answered as a success, and leaves the process in memory mode.
C4_RemoteFailureRecovered ==
    (Done /\ last.tier = "remote" /\ last.failed)
       => last.status = 200 /\ storageMode = "memory"

LocalTiers == {"blob", "memory", "file"}

\* The last two requests were served by one local backend, one after the
\* other, nothing running beside them.
SameLocalTier ==
    /\ last.tier = last.prev.tier /\ last.tier \in LocalTiers
    /\ last.alone /\ last.prev.alone

\* C5: createTask(t) on the stored sequence S returns {id, title: t,
\* isDone: false}, and the getTasks that follows returns S followed by that
\* record (blob, memory or file backend, requests in turn).
C5_CreateThenList ==
    (/\ Done /\ last.method = "GET" /\ last.status = 200
     /\ last.prev.method = "POST" /\ SameLocalTier)
       => /\ last.prev.task = Task(last.prev.task.id, last.prev.title, FALSE)
          /\ last.prev.task.id \notin Ids(last.prev.before)
          /\ last.respList = last.prev.before \o << last.prev.task >>

\* A list read after a task was added to a sequence of three or more.
C5_ListedAfterCreate ==
    /\ Done /\ last.method = "GET" /\ last.status = 200
    /\ last.prev.method = "POST" /\ SameLocalTier
    /\ Len(last.prev.before) >= 3

\* C6: removeTask(i) on the stored sequence S followed by getTasks returns S
\* without the records of id i, the others unchanged and in their order
\* (blob, memory or file backend, requests in turn).
C6_RemoveThenList ==
    (/\ Done /\ last.method = "GET" /\ last.status = 200
     /\ last.prev.method = "DELETE" /\ SameLocalTier)
       => last.respList =
             SelectSeq(last.prev.before, LAMBDA t : t.id # last.prev.taskId)

\* A list read after a task between two others was removed.
C6_ListedAfterRemove ==
    /\ Done /\ last.method = "GET" /\ last.status = 200
    /\ last.prev.method = "DELETE" /\ SameLocalTier
    /\ Len(last.prev.before) >= 3
    /\ last.prev.before[2].id = last.prev.taskId
    /\ Len(last.respList) = Len(last.prev.before) - 1

UniqueIds(tasks) == Cardinality(Ids(tasks)) = Len(tasks)

\* C7: in every state, however the requests interleave, no two records of a
\* stored sequence (blob document, memory container, upstream list, task
\* cache, data file) have the same id.
C7_IdsUnique ==
    /\ UniqueIds(blobDoc.tasks)
    /\ UniqueIds(container.tasks)
    /\ UniqueIds(remoteList)
    /\ UniqueIds(taskCache.tasks)
    /\ UniqueIds(disk.tasks)

\* Two requests overlapped, and the blob document holds the seed and more.
C7_OverlappedAndGrown ==
    /\ Done /\ ~last.alone /\ arrivals = MaxArrivals
    /\ Len(blobDoc.tasks) > SeedSize

\* The last request handed updateTask/removeTask an id of no stored record:
\* its path gave a non-empty id to a handler that calls them (on vercel the
\* path /api/tasks is served by index.js, which does not).
UnknownId ==
    /\ last.taskId # 0 /\ last.taskId \notin Ids(last.before)
    /\ deployment = "vercel" => last.taskId # TasksSegment

\* C8: updateTask(id, isDone) and removeTask(id) with an id of no stored
\* record are answered 200 and leave the stored sequence as it was (blob,
\* memory or file backend).
C8_UnknownIdNoOp ==
    (/\ Done /\ ~last.failed /\ ~last.malformed /\ last.alone
     /\ last.tier \in LocalTiers /\ UnknownId
     /\ \/ last.method = "DELETE"
        \/ last.method = "PATCH" /\ last.isDone \in {"true", "false"})
       => last.status = 200 /\ last.after = last.before

\* A PATCH to true of an unknown id, on a sequence with an undone task.
C8_PatchedUnknownId ==
    /\ Done /\ last.method = "PATCH" /\ last.isDone = "true"
    /\ last.status = 200 /\ last.tier \in LocalTiers /\ UnknownId
    /\ \E i \in 1..Len(last.before) : ~last.before[i].isDone

\* C9: updateTask(id, b) called twice in a row leaves the stored sequence as
\* the first call left it.
C9_UpdateTwice ==
    (/\ Done /\ last.method = "PATCH" /\ last.status = 200
     /\ last.prev.method = "PATCH" /\ SameLocalTier
     /\ last.prev.taskId = last.taskId /\ last.prev.isDone = last.isDone)
       => last.before = last.prev.after /\ last.after = last.prev.after

\* The second of two equal PATCH requests, the first of which changed a task.
C9_UpdatedTwice ==
    /\ Done /\ last.method = "PATCH" /\ last.status = 200
    /\ last.prev.method = "PATCH" /\ SameLocalTier
    /\ last.prev.after # last.prev.before

\* C10: a POST with a missing or empty title and a PATCH with an isDone that
\* is no boolean are answered 400 and leave the stored sequence as it was.
C10_InvalidRejected ==
    (/\ Done /\ ~last.malformed /\ last.alone
     /\ \/ last.method = "POST" /\ last.title \in {"undefined", ""}
        \/ /\ last.method = "PATCH" /\ last.taskId # 0
           /\ last.isDone \notin {"true", "false"})
       => /\ last.status = 400 /\ ~last.failed
          /\ last.after = last.before
          /\ last.respTask = NoTask

\* A POST with an empty title was answered, the store holding tasks.
C10_EmptyTitleAnswered ==
    /\ Done /\ last.method = "POST" /\ last.title = ""
    /\ Len(last.before) > 0

\* The titles and isDone values of a task list, in its order.
Plain(tasks) ==
    [i \in 1..Len(tasks) |->
        [title |-> tasks[i].title, isDone |-> tasks[i].isDone]]

\* C11: when initializeStore finds no document under the key of the blob
\* store, the getTasks that follows returns three tasks: "walk the dog",
\* "wash dishes", "drink coffee", with isDone false, false, true.
C11_FirstListIsSeed ==
    (/\ Done /\ last.method = "GET" /\ last.status = 200
     /\ last.tier = "blob" /\ last.foundNone /\ last.alone)
       => Plain(last.respList) =
             << [title |-> "walk the dog", isDone |-> FALSE],
                [title |-> "wash dishes", isDone |-> FALSE],
                [title |-> "drink coffee", isDone |-> TRUE] >>

\* The first GET of a process was served from a blob store found empty.
C11_ListedFromEmptyStore ==
    /\ Done /\ last.method = "GET" /\ last.status = 200
    /\ last.tier = "blob" /\ last.foundNone
    /\ last.modeAtStart = "uninitialized"

\* C12: the seed list is written to the blob store at most once, however the
\* requests overlap.
C12_SeededAtMostOnce == seedWrites <= 1

\* Two createTask calls overlapped, were served by one local backend from
\* their first step to their last (the mode was that backend's when each
\* began, and is still), read the same list, and both returned: `last` the
\* later, `last.prev` the earlier.
CreatedFromOneSnapshot ==
    /\ Done /\ last.method = "POST" /\ last.status = 200 /\ ~last.alone
    /\ last.prev.method = "POST" /\ ~last.prev.alone
    /\ last.tier = last.prev.tier /\ last.tier \in {"blob", "memory"}
    /\ last.mode = last.tier /\ last.prev.mode = last.tier
    /\ storageMode = last.tier
    /\ last.tasks = last.prev.tasks

\* C13: a lost update is reachable; two overlapping createTask calls can read
\* the same list, and then the stored sequence is that list followed by the
\* task of the call that wrote last, without the task of the other.
C13_LaterWriteWins ==
    CreatedFromOneSnapshot
       => /\ last.after = last.tasks \o << last.respTask >>
          /\ last.prev.task.id \notin Ids(last.after)
          /\ last.prev.task.id # last.respTask.id

\* The update of a createTask call is lost in the blob store.
C13_LostInBlobStore ==
    /\ CreatedFromOneSnapshot /\ last.tier = "blob"
    /\ last.prev.task.id \notin Ids(blobDoc.tasks)

\* The update of a createTask call is lost in the memory container.
C13_LostInMemory ==
    /\ CreatedFromOneSnapshot /\ last.tier = "memory"
    /\ last.prev.task.id \notin Ids(container.tasks)

\* The path of the last request carried no task id.
NoIdInPath == last.taskId \in {0, TasksSegment}

\* C14: a PATCH or DELETE request whose path carries no task id (the path
\* /api/tasks itself, or a path with an empty last segment) is answered 400
\* and leaves the store alone.
C14_NoIdRejected ==
    (/\ Done /\ deployment = "netlify" /\ ~last.failed /\ ~last.malformed
     /\ last.method \in {"PATCH", "DELETE"} /\ NoIdInPath)
       => last.status = 400 /\ last.respList = << >> /\ last.tasks = << >>

\* The last request was served to its end with a method other than GET, POST,
\* PATCH and DELETE.
OtherMethod == Done /\ last.method \notin {"GET", "POST", "PATCH", "DELETE"}

MethodNotAllowed == last.status = 405 /\ last.msg = "method not allowed"

C16_FailureAnswered500 ==
    (Done /\ last.failed)
       => last.status = 500 /\ last.msg = "something went wrong"

BlobContacted ==
    \/ store \/ connectAttempted \/ connectCalls > 0 \/ seedWrites > 0
    \/ last.initContact \/ last.foundNone \/ last.tier = "blob"
    \/ \E r \in Reqs : \/ req[r].initContact
                        \/ req[r].pc \in {"init_get", "init_seed", "read_get",
                                         "read_seed", "write_set"}

C18_UpstreamTaskReturned ==
    (Done /\ last.method = "POST" /\ last.upstream # NoTask)
       => /\ last.tier = "remote" /\ last.status = 200 /\ ~last.failed
          /\ last.respTask = last.upstream
          /\ last.respTask # last.newTask
          /\ ~last.put
          /\ last.after = Append(last.before, last.upstream)

C18_ReturnedUpstreamTask ==
    /\ Done /\ last.method = "POST" /\ last.upstream # NoTask
    /\ last.respTask = last.upstream /\ last.newTask # NoTask
    /\ last.before # << >>

\* Every record of `tasks` is the record created under its id, its isDone
\* replaced by that of the latest updateTask on the id that returned.
AsExpected(tasks) ==
    \A i \in 1..Len(tasks) :
       /\ tasks[i].id \in 1..Len(expected)
       /\ tasks[i] = expected[tasks[i].id]

\* The task list of the backend that storageMode and the store handle select.
StoreTasks ==
    IF storageMode = "uninitialized" THEN << >>
    ELSE Stored(Ctx(Idle), TierOf(storageMode, store))

\* C19: a task's id and title never change after creation and its isDone
\* changes only through updateTask on its id: with the requests served one
\* after the other, every record in the store in use has the title it was
\* created with, and the isDone it was created with or the one given by the
\* latest updateTask on its id.
C19_RecordsAsExpected == AsExpected(StoreTasks)

C19_UpdatedAmongOthers ==
    /\ Done /\ deployment = "netlify"
    /\ last.method = "PATCH" /\ last.status = 200 /\ last.isDone = "true"
    /\ last.after # last.before
    /\ \E i \in 1..Len(last.after) :
          /\ last.after[i].id = last.taskId /\ last.after[i].isDone
          /\ last.after[i].title = expected[last.taskId].title
    /\ \E i \in 1..Len(last.after) : ~last.after[i].isDone

\* The ["tasks"] cache holds the list the server answers GET with.
Reconciled == query.present /\ ~query.fetching /\ query.data = serverList

\* C20: once the app has loaded and the server is reachable, the ["tasks"]
\* cache eventually holds the task list returned by GET, whether or not the
\* user performs a mutation.
C20_CacheReconciled == reachable => <>Reconciled

\* The step is a mutation's onSuccess: the user's mutation was answered.
MutationSucceeds == mutations' = mutations + 1 /\ reachable

\* C21 as stated: when a mutation's onSuccess finishes, localStorage holds
\* the cache's taskList.
C21_StorageEqualsCache ==
    [][MutationSucceeds => localStorage' = ArrayItem(query'.data)]_vars

\* C21: a mutation's onSuccess sets the cache to the updated list, hands the
\* same list to writeTasksToStorage, and leaves the query invalidated and
\* being refetched; when it finishes, localStorage holds the cache's
\* taskList, or what it held before when setItem threw.
C21_StorageEqualsCacheOrKept ==
    [][MutationSucceeds =>
          /\ query'.isInvalidated /\ query'.fetching
          /\ \/ localStorage' = ArrayItem(query'.data)
             \/ localStorage' = localStorage]_vars

C21_MutationPersisted ==
    /\ reachable /\ mutations > 0
    /\ query.isInvalidated /\ query.fetching
    /\ query.data # initialData(OtherItem)
    /\ localStorage = ArrayItem(query.data)

\* C27: a failed GET of the task list leaves the tasks in localStorage and
\* the cache's task list as they were.
C27_FailedGetKeepsTasks ==
    [][(/\ query.fetching /\ ~query'.fetching /\ ~reachable
        /\ localStorage.kind = "array" /\ localStorage.tasks # << >>)
          => localStorage' = localStorage /\ query'.data = query.data]_vars

\* The last request was a PATCH answered 200 while no other request or reset
\* touched the store.
UpdatedAlone ==
    /\ Done /\ last.method = "PATCH" /\ last.status = 200 /\ last.alone
    /\ last.tier \in LocalTiers

\* C22: updateTask(id, b) changes nothing but the isDone of the records whose
\* id is id: the stored sequence keeps its length and order, every other
\* record is unchanged, and the matching record keeps its id and title.
C22_UpdateFrame ==
    UpdatedAlone =>
       /\ Len(last.after) = Len(last.before)
       /\ \A i \in 1..Len(last.before) :
             /\ last.after[i].id = last.before[i].id
             /\ last.after[i].title = last.before[i].title
             /\ last.after[i].isDone =
                   IF last.before[i].id = last.taskId
                   THEN ToBool(last.isDone)
                   ELSE last.before[i].isDone

\* An update of a record that is not the last of several changed its isDone.
C22_UpdatedInPlace ==
    /\ UpdatedAlone /\ Len(last.before) > 1
    /\ \E i \in 1..(Len(last.before) - 1) :
          /\ last.before[i].id = last.taskId
          /\ last.after[i].isDone # last.before[i].isDone

\* A removeTask call returned, having left the blob store without its id,
\* and a call that overlapped it on the blob store returned after it.
OverlappedRemoval ==
    /\ Done /\ last.status = 200 /\ ~last.alone
    /\ last.prev.method = "DELETE" /\ ~last.prev.alone
    /\ last.tier = "blob" /\ last.prev.tier = "blob"
    /\ last.mode = "blob" /\ last.prev.mode = "blob"
    /\ storageMode = "blob"
    /\ last.prev.taskId \notin Ids(last.prev.after)

\* C23: a deleted task stays deleted; once removeTask(id) has returned, the
\* list that getTasks returns holds no record with that id, whatever calls
\* overlap the removal.
C23_RemovedStaysRemoved ==
    OverlappedRemoval => last.prev.taskId \notin Ids(StoreTasks)

\* C24: while an initializeStore call is awaiting the blob store (its
\* existence check or its seeding), no other request's readTasks or
\* writeTasks is at the blob store.
C24_NoAccessDuringInit ==
    \A r, q \in Reqs :
       req[r].pc \in {"init_get", "init_seed"}
          => req[q].pc \notin {"read_get", "read_seed", "write_set"}

\* No initializeStore call is between its getStore and its return.
NoInitInFlight == \A r \in Reqs : req[r].pc \notin {"init_get", "init_seed"}

\* C25: whenever no initializeStore call is in flight, the store handle is
\* set if and only if storageMode is "blob".
C25_StoreIffBlob == NoInitInFlight => (store <=> storageMode = "blob")

\* An initializeStore call reached the blob store, failed and fell back.
C25_FellBackWithoutStore ==
    /\ NoInitInFlight /\ Done /\ last.initContact
    /\ ~store /\ storageMode \in {"remote", "memory"}


SeedTitles ==
    { buildDefaultTasks(1)[i].title : i \in 1..SeedSize }

\* The blob document, the memory container: an array without a task.
Emptied(doc) == doc.present /\ doc.tasks = << >>

NoSeedIn(doc) ==
    /\ doc.present
    /\ \A i \in 1..Len(doc.tasks) : doc.tasks[i].title \notin SeedTitles

\* A GET served after the removal that left the blob document or the memory
\* container empty, by the same backend.
ListedAfterEmptying ==
    /\ Done /\ last.method = "GET" /\ last.status = 200
    /\ SameLocalTier /\ last.tier \in {"blob", "memory"}
    /\ last.prev.method = "DELETE"
    /\ last.prev.before # << >> /\ last.prev.after = << >>

ListedAfterUnwritten ==
    /\ Done /\ last.method = "GET" /\ last.status = 200
    /\ last.tier = "file" /\ SameLocalTier
    /\ last.prev.method \in {"POST", "DELETE"}
    /\ ~isPersistWritable

\* C28: in the file-backed store a disk write is started only while
\* isPersistWritable is set, and a failed write clears it for good; after
\* that createTask, updateTask and removeTask are still answered without a
\* failure, and the GET that follows a createTask or removeTask returns the
\* list with that change, which is the cache (requests served in turn).
C28_NoWriteAfterFailure ==
    /\ [][/\ \A r \in Reqs :
               (req[r].pc # "file_write" /\ req'[r].pc = "file_write")
                  => isPersistWritable
          /\ ~isPersistWritable => ~isPersistWritable']_vars
    /\ []((/\ Done /\ last.tier = "file" /\ ~isPersistWritable
           /\ ~last.malformed) => ~last.failed /\ last.status \notin {0, 500})
    /\ [](ListedAfterUnwritten =>
            /\ last.respList = taskCache.tasks
            /\ last.respList =
                 IF last.prev.method = "POST"
                 THEN last.prev.before \o << last.prev.task >>
                 ELSE FilterOut(last.prev.before, last.prev.taskId))

\* C28 witness: a task created after the write failure, or by the request
\* whose write failed, is listed by the next GET and is not in the data file.
C28_ListedFromCache ==
    /\ ListedAfterUnwritten
    /\ last.prev.method = "POST"
    /\ last.prev.task.id \in Ids(last.respList)
    /\ last.prev.task.id \notin Ids(disk.tasks)

\* What loadTasksFromDisk can return: the array in the data file, or [].
Loadable == {<< >>} \cup (IF disk.present THEN {disk.tasks} ELSE {})

\* C29: in the file-backed store a read of the data file is started only
\* while taskCache is unset, and it never fails: when it completes taskCache
\* is set, a GET is answered 200 with the array of the file or with the empty
\* list, and any other operation goes on to persistTasks (requests may
\* overlap; resetTasksCache unsets the cache).
C29_LoadNeverFails ==
    [][\A r \in Reqs :
         /\ (req[r].pc # "file_load" /\ req'[r].pc = "file_load")
               => ~taskCache.present
         /\ (req[r].pc = "file_load" /\ req'[r].pc # "file_load")
               => /\ taskCache'.present
                  /\ \/ req'[r].pc = "file_write"
                     \/ /\ req'[r].pc = "idle" /\ last'.pc = "done"
                        /\ ~last'.failed /\ last'.status = 200
                        /\ last'.method = "GET"
                              => last'.respList \in Loadable]_vars

\* C29 witness: the data file holds tasks, its read failed, and the GET was
\* answered with the empty list, which is now the cache.
C29_UnreadableFileListedEmpty ==
    /\ Done /\ last.method = "GET" /\ last.status = 200 /\ last.tier = "file"
    /\ disk.present /\ disk.tasks # << >>
    /\ last.respList = << >> /\ taskCache = Holding(<< >>)
    /\ isPersistWritable
====
